---- MODULE Spec2Model ----
(***************************************************************************)
(* Client-side reconciliation of the chat message stream:                  *)
(*   useChat.ts        - stream.messages, custom events, bundle maps       *)
(*   ChatInterface.tsx - processedMessages (the reconciliation useMemo)    *)
(*   page.tsx          - subAgentToolCalls (selected sub-agent feed),      *)
(*                       threadId, token usage, files and the outline      *)
(***************************************************************************)
EXTENDS Integers, Sequences, FiniteSets, TLC

VARIABLES
    streamMessages,             \* stream.messages (useStream)
    streamMap,                  \* stream.values.subagent_tool_calls_map
    localSubagentMessages,      \* useState in useChat
    localSubagentToolCallsMap,  \* useState in useChat
    processed,                  \* value of the processedMessages useMemo
    delivered,                  \* history: message ids in order of first delivery
    threadId,                   \* useQueryState("threadId") in page.tsx
    streamThread,               \* the thread whose messages and values useStream holds
    fetching,                   \* threads whose fetchThreadState awaits getState
    streamUsage,                \* stream.values.token_usage
    tokenUsage,                 \* useState in page.tsx
    previousTokenUsageRef,      \* useRef in useChat
    hasReceivedRealTimeUpdate,  \* useRef in useChat
    files,                      \* useState in page.tsx
    sendMessageCallbackRef,     \* useRef in page.tsx
    localOutline,               \* useState in PlanOutline
    submitted,                  \* history: the stream.submit calls
    outlineSaves,               \* history: clicks on Save Outline
    observed,                   \* history: last usage snapshot seen in this thread
    surfaced,                   \* history: last argument of onTokenUsageUpdate
    usageEventSeen,             \* history: a usage event came since the thread changed
    bufferedUnder,              \* history: thread of the last custom or update event
    jsonString,                 \* argument of a call of parseOutlineJSON
    parsedOutline,              \* what that call has returned
    loadedFor                   \* history: thread whose state was loaded last

messageVars == << streamMessages, streamMap, localSubagentMessages,
                  localSubagentToolCallsMap, processed, delivered >>

tokenVars == << streamUsage, tokenUsage, previousTokenUsageRef,
                hasReceivedRealTimeUpdate, observed, surfaced, usageEventSeen >>

parseVars == << jsonString, parsedOutline >>

outlineVars == << sendMessageCallbackRef, localOutline, submitted, outlineSaves,
                 parseVars >>

threadVars == << threadId, streamThread, fetching, loadedFor >>

vars == << messageVars, tokenVars, outlineVars, threadVars, files, bufferedUnder >>

----------------------------------------------------------------------------
(* Bounds of the model *)

MaxMsgs == 3      \* messages held by the client (stream + local)
MaxSeed == 1      \* Math.random() outcomes are drawn from 0..MaxSeed
MaxSubmits == 2   \* stream.submit calls
MaxEdits == 1     \* edits of the outline in PlanOutline
MaxSaves == 1     \* clicks on Save Outline
MaxResults == 4   \* messages held while tool results are told apart
MaxEntries == 2   \* entries of the sections list of an outline payload
MaxSections == 5  \* sections of the outline PlanOutline shows

----------------------------------------------------------------------------
(* JavaScript values *)

undefined == "undefined"

Truthy(x) == x # undefined /\ x # ""

\* a || b
Or(a, b) == IF Truthy(a) THEN a ELSE b

\* an optional array: {} when the property is absent, {array} when present
Absent == {}
Some(s) == {s}
Arr(o) == IF o = {} THEN << >> ELSE CHOOSE s \in o : TRUE

RECURSIVE SeqToSet(_)
SeqToSet(s) == IF s = << >> THEN {} ELSE {Head(s)} \cup SeqToSet(Tail(s))

\* Array.prototype.findIndex, 1-based, 0 when nothing matches
RECURSIVE FindFrom(_, _, _)
FindFrom(s, Test(_), i) ==
    IF i > Len(s) THEN 0
    ELSE IF Test(s[i]) THEN i
    ELSE FindFrom(s, Test, i + 1)

findIndex(s, Test(_)) == FindFrom(s, Test, 1)

----------------------------------------------------------------------------
(* Messages as they arrive (Message of @langchain/langgraph-sdk) *)

\* a raw tool call inside an assistant message
RawCall(id, name) ==
    [id |-> id, fname |-> undefined, name |-> name, type |-> undefined]

\* a tool call inside a sub-agent bundle
BundleCall(id, status, result) ==
    [id |-> id, name |-> "search", status |-> status, result |-> result]

\* a bundle: { tool_calls, subagent_type }
Bundle(calls, stype) == [tool_calls |-> calls, subagent_type |-> stype]

BlankMessage ==
    [id |-> undefined, type |-> "human", content |-> "",
     src |-> undefined, stype |-> undefined,
     subTcs |-> Absent, kwTcs |-> Absent, tcs |-> Absent, blocks |-> Absent,
     tool_call_id |-> undefined,
     hasKw |-> FALSE, kwBundle |-> Absent, kwType |-> undefined,
     dirBundle |-> Absent, dirType |-> undefined,
     jsonBundle |-> Absent, jsonType |-> undefined]

HumanMsg(id, text) == [BlankMessage EXCEPT !.id = id, !.content = text]

\* main-agent assistant message carrying message.tool_calls
AiMsg(id, calls) ==
    [BlankMessage EXCEPT !.id = id, !.type = "ai", !.tcs = Some(calls)]

\* assistant message written inside a sub-agent: additional_kwargs._subagent_source
SubAiMsg(id, parent, stype, calls) ==
    [BlankMessage EXCEPT !.id = id, !.type = "ai", !.hasKw = TRUE,
                         !.src = parent, !.stype = stype, !.tcs = Some(calls)]

ToolMsg(id, tcid, text) ==
    [BlankMessage EXCEPT !.id = id, !.type = "tool", !.tool_call_id = tcid,
                         !.content = text]

\* tool result of a sub-agent's own call
SubToolMsg(id, tcid, parent, stype, text) ==
    [BlankMessage EXCEPT !.id = id, !.type = "tool", !.tool_call_id = tcid,
                         !.content = text, !.hasKw = TRUE,
                         !.src = parent, !.stype = stype]

\* where a tool-result message can carry its bundle
WithKwBundle(m, b) ==
    [m EXCEPT !.hasKw = TRUE, !.kwBundle = Some(b.tool_calls),
              !.kwType = b.subagent_type]
WithDirBundle(m, b) ==
    [m EXCEPT !.dirBundle = Some(b.tool_calls), !.dirType = b.subagent_type]
WithJsonBundle(m, b) ==
    [m EXCEPT !.jsonBundle = Some(b.tool_calls), !.jsonType = b.subagent_type]

----------------------------------------------------------------------------
(* processedMessages, first pass: assistant messages *)

\* ChatInterface.tsx 145-168: the raw tool calls of one assistant message
toolCallsInMessage(m) ==
    LET fromSub  == IF m.subTcs # Absent THEN Arr(m.subTcs) ELSE << >>
        fromRest == IF m.kwTcs # Absent THEN Arr(m.kwTcs)
                    ELSE IF m.tcs # Absent
                         THEN SelectSeq(Arr(m.tcs), LAMBDA tc : tc.name # "")
                    ELSE IF m.blocks # Absent
                         THEN SelectSeq(Arr(m.blocks), LAMBDA b : b.type = "tool_use")
                    ELSE << >>
    IN  fromSub \o fromRest

\* `tool-${Math.random()}`: the k-th draw of a recomputation whose draws are rnd
Placeholder(rnd, k) == "tool-" \o ToString(rnd) \o "." \o ToString(k)

\* number of calls without a provider id among the first i-1
NoIdBefore(calls, i) == Cardinality({j \in 1..(i - 1) : ~Truthy(calls[j].id)})

\* `${toolCallId}-${parentToolCallId || 'main'}-${message.id || 'unknown'}`
uniqueIdOf(toolCallId, parentToolCallId, messageId) ==
    toolCallId \o "-" \o Or(parentToolCallId, "main") \o "-" \o Or(messageId, "unknown")

\* ChatInterface.tsx 169-201
toolCallsWithStatus(m, rnd, n0) ==
    LET calls == toolCallsInMessage(m)
        isSubagentMessage == m.src # undefined
    IN  [i \in 1..Len(calls) |->
            LET toolCall == calls[i]
                toolCallId == IF Truthy(toolCall.id) THEN toolCall.id
                              ELSE Placeholder(rnd, n0 + NoIdBefore(calls, i))
                parentToolCallId == IF isSubagentMessage THEN m.src ELSE undefined
            IN  [id |-> toolCallId,
                 name |-> Or(toolCall.fname, Or(toolCall.name, Or(toolCall.type, "unknown"))),
                 status |-> "pending",
                 result |-> undefined,
                 uniqueId |-> uniqueIdOf(toolCallId, parentToolCallId, m.id),
                 source |-> "ai_message",
                 messageId |-> m.id,
                 subagentType |-> IF isSubagentMessage THEN m.stype ELSE undefined,
                 parentToolCallId |-> parentToolCallId]]

UniqueIds(list) == {list[i].uniqueId : i \in 1..Len(list)}

\* position of the messageMap entry with this key, 0 when there is none
entryIndex(mm, id) == findIndex(mm, LAMBDA e : e.message.id = id)

\* ChatInterface.tsx 221-238: merge the main-agent calls of a message seen before
RECURSIVE MergeMain(_, _, _, _, _)
MergeMain(list, g, tcs, i, existingUniqueIds) ==
    IF i > Len(tcs) THEN [list |-> list, g |-> g]
    ELSE LET tc == tcs[i]
         IN  IF tc.uniqueId \notin existingUniqueIds /\ tc.uniqueId \notin g
             THEN MergeMain(Append(list, tc), g \cup {tc.uniqueId}, tcs, i + 1,
                            existingUniqueIds)
             ELSE MergeMain(list, g, tcs, i + 1, existingUniqueIds)

\* ChatInterface.tsx 241-274: merge the sub-agent calls of a message seen before
RECURSIVE MergeSub(_, _, _, _, _)
MergeSub(list, g, tcs, i, existingUniqueIds) ==
    IF i > Len(tcs) THEN [list |-> list, g |-> g]
    ELSE LET tc == tcs[i]
             existingIndex == findIndex(list, LAMBDA etc : etc.uniqueId = tc.uniqueId)
         IN  IF tc.uniqueId \notin existingUniqueIds /\ tc.uniqueId \notin g
             THEN MergeSub(Append(list, tc), g \cup {tc.uniqueId}, tcs, i + 1,
                           existingUniqueIds)
             ELSE IF existingIndex # 0
             THEN MergeSub(
                    [list EXCEPT ![existingIndex] =
                        [tc EXCEPT !.result = list[existingIndex].result,
                                   !.status = IF list[existingIndex].status = "completed"
                                              THEN "completed"
                                              ELSE Or(tc.status, "pending")]],
                    g, tcs, i + 1, existingUniqueIds)
             ELSE MergeSub(list, g, tcs, i + 1, existingUniqueIds)

\* ChatInterface.tsx 275-295: a message seen for the first time
RECURSIVE TrackNew(_, _, _, _)
TrackNew(g, a, tcs, i) ==
    IF i > Len(tcs) THEN [g |-> g, a |-> a]
    ELSE LET tc == tcs[i]
         IN  IF tc.uniqueId \in g
             THEN TrackNew(g, a, tcs, i + 1)
             ELSE TrackNew(g \cup {tc.uniqueId, "id:" \o tc.id}, a \cup {tc.id},
                           tcs, i + 1)

\* the state threaded through the passes:
\*   mm messageMap (in insertion order), g globalToolCallIds,
\*   a allToolCallIdsByActualId, n Math.random() draws made so far
EmptyPass == [mm |-> << >>, g |-> {}, a |-> {}, n |-> 0]

\* ChatInterface.tsx 138-309, body of the first forEach
FirstPassMessage(st, m, rnd) ==
    IF m.type # "ai" THEN st
    ELSE
    LET isSubagentMessage == m.src # undefined
        tcs == toolCallsWithStatus(m, rnd, st.n)
        n2 == st.n + NoIdBefore(toolCallsInMessage(m), Len(tcs) + 1)
        k == entryIndex(st.mm, m.id)
    IN  IF k # 0
        THEN LET existingData == st.mm[k]
                 merged ==
                    IF Len(tcs) = 0 THEN [list |-> << >>, g |-> st.g]
                    ELSE IF isSubagentMessage
                    THEN MergeSub(existingData.subagentToolCalls, st.g, tcs, 1,
                                  UniqueIds(existingData.subagentToolCalls))
                    ELSE MergeMain(existingData.toolCalls, st.g, tcs, 1,
                                   UniqueIds(existingData.toolCalls))
                 messageData ==
                    [message |-> m,
                     toolCalls |-> IF isSubagentMessage THEN << >> ELSE merged.list,
                     subagentToolCalls |-> IF isSubagentMessage THEN merged.list ELSE << >>]
             IN  [st EXCEPT !.mm = [st.mm EXCEPT ![k] = messageData],
                            !.g = merged.g, !.n = n2]
        ELSE LET tracked == TrackNew(st.g, st.a, tcs, 1)
                 messageData ==
                    [message |-> m,
                     toolCalls |-> IF isSubagentMessage THEN << >> ELSE tcs,
                     subagentToolCalls |-> IF isSubagentMessage THEN tcs ELSE << >>]
             IN  [st EXCEPT !.mm = Append(st.mm, messageData),
                            !.g = tracked.g, !.a = tracked.a, !.n = n2]

RECURSIVE FirstPass(_, _, _, _)
FirstPass(st, messages, i, rnd) ==
    IF i > Len(messages) THEN st
    ELSE FirstPass(FirstPassMessage(st, messages[i], rnd), messages, i + 1, rnd)

----------------------------------------------------------------------------
(* processedMessages, second pass: tool-result messages *)

\* utils/utils extractStringFromMessageContent: the text of the message
extractStringFromMessageContent(m) == m.content

\* PayloadBundle without the search for JSON embedded in the text
PayloadBundleNoJson(m) ==
    IF m.hasKw /\ m.kwBundle # Absent
    THEN [calls |-> m.kwBundle, stype |-> m.kwType]
    ELSE IF m.dirBundle # Absent
    THEN [calls |-> m.dirBundle, stype |-> m.dirType]
    ELSE [calls |-> Absent, stype |-> undefined]

\* ChatInterface.tsx 325-357: the bundle carried by the tool message itself
PayloadBundle(m) ==
    LET fromKw   == IF m.hasKw
                    THEN [calls |-> m.kwBundle, stype |-> m.kwType]
                    ELSE [calls |-> Absent, stype |-> undefined]
        fromDir  == IF fromKw.calls = Absent /\ m.dirBundle # Absent
                    THEN [calls |-> m.dirBundle, stype |-> m.dirType]
                    ELSE fromKw
        fromJson == IF fromDir.calls = Absent /\ m.blocks = Absent
                       /\ m.jsonBundle # Absent
                    THEN [calls |-> m.jsonBundle, stype |-> m.jsonType]
                    ELSE fromDir
    IN  fromJson

\* ChatInterface.tsx 498: `${tcId}-${toolCallId}-${message.id || 'tool-msg'}`
bundleUniqueIdOf(tcId, toolCallId, messageId) ==
    tcId \o "-" \o toolCallId \o "-" \o Or(messageId, "tool-msg")

\* ChatInterface.tsx 496-538: add the calls of a bundle to the delegation's entry
RECURSIVE AddBundleCalls(_, _, _, _, _, _, _, _)
AddBundleCalls(acc, calls, i, toolCallId, m, stype, existingToolCallIds, rnd) ==
    IF i > Len(calls) THEN acc
    ELSE
    LET tc == calls[i]
        fresh == ~Truthy(tc.id)
        tcId == IF fresh THEN Placeholder(rnd, acc.n) ELSE tc.id
        n2 == IF fresh THEN acc.n + 1 ELSE acc.n
        uniqueId == bundleUniqueIdOf(tcId, toolCallId, m.id)
        isDuplicateById == tcId \in acc.a \/ ("id:" \o tcId) \in acc.g
        isDuplicateByUniqueId == uniqueId \in acc.g
        isDuplicate == isDuplicateById \/ isDuplicateByUniqueId
                       \/ tcId \in existingToolCallIds
    IN  IF isDuplicate
        THEN AddBundleCalls([acc EXCEPT !.n = n2], calls, i + 1, toolCallId, m,
                            stype, existingToolCallIds, rnd)
        ELSE AddBundleCalls(
                [list |-> Append(acc.list,
                            [id |-> tcId, name |-> tc.name, status |-> tc.status,
                             result |-> tc.result, uniqueId |-> uniqueId,
                             source |-> "state_map", messageId |-> m.id,
                             subagentType |-> stype,
                             parentToolCallId |-> toolCallId]),
                 g |-> acc.g \cup {uniqueId, "id:" \o tcId},
                 a |-> acc.a \cup {tcId},
                 n |-> n2],
                calls, i + 1, toolCallId, m, stype,
                existingToolCallIds \cup {tcId}, rnd)

\* MergeBundle without any duplicate check: every call of the bundle is added
MergeBundleNoDedup(st, k, m, subagentToolCallsMap, rnd) ==
    LET toolCallId == m.tool_call_id
        hasState == toolCallId \in DOMAIN subagentToolCallsMap
        payload == PayloadBundle(m)
        useState == (payload.calls = Absent \/ Len(Arr(payload.calls)) = 0) /\ hasState
        calls == IF useState THEN subagentToolCallsMap[toolCallId].tool_calls
                 ELSE Arr(payload.calls)
        stype == IF useState THEN subagentToolCallsMap[toolCallId].subagent_type
                 ELSE payload.stype
    IN  [st EXCEPT !.mm[k].subagentToolCalls = @ \o
            [i \in 1..Len(calls) |->
                [id |-> calls[i].id, name |-> calls[i].name,
                 status |-> calls[i].status, result |-> calls[i].result,
                 uniqueId |-> bundleUniqueIdOf(calls[i].id, toolCallId, m.id),
                 source |-> "state_map", messageId |-> m.id,
                 subagentType |-> stype, parentToolCallId |-> toolCallId]]]

\* ChatInterface.tsx 396-557: after the delegation's own call was completed,
\* decide whether its bundle is added to entry k
MergeBundle(st, k, m, subagentToolCallsMap, rnd) ==
    LET toolCallId == m.tool_call_id
        hasState == toolCallId \in DOMAIN subagentToolCallsMap
        stateToolCalls == IF hasState THEN subagentToolCallsMap[toolCallId].tool_calls
                          ELSE << >>
        stateType == IF hasState THEN subagentToolCallsMap[toolCallId].subagent_type
                     ELSE undefined
        knownById == \E i \in 1..Len(stateToolCalls) :
                        /\ Truthy(stateToolCalls[i].id)
                        /\ \/ stateToolCalls[i].id \in st.a
                           \/ ("id:" \o stateToolCalls[i].id) \in st.g
        \* first messageMap entry holding calls of this delegation
        other == findIndex(st.mm, LAMBDA e :
                    \E j \in 1..Len(e.subagentToolCalls) :
                        e.subagentToolCalls[j].parentToolCallId = toolCallId)
        toolCallsForThisSubAgent ==
            SelectSeq(st.mm[other].subagentToolCalls,
                      LAMBDA tc : tc.parentToolCallId = toolCallId)
        payload == PayloadBundle(m)
        payloadEmpty == payload.calls = Absent \/ Len(Arr(payload.calls)) = 0
        useState == payloadEmpty /\ hasState
        subagentToolCalls == IF useState THEN stateToolCalls ELSE Arr(payload.calls)
        subagentType == IF useState THEN Or(stateType, payload.stype) ELSE payload.stype
        expectedSubagentType == Or(stateType, subagentType)
        typesAgree == \/ ~Truthy(subagentType)
                      \/ ~Truthy(expectedSubagentType)
                      \/ subagentType = expectedSubagentType
    IN  IF knownById THEN st
        ELSE IF other # 0
        THEN [st EXCEPT
                !.g = st.g \cup UniqueIds(toolCallsForThisSubAgent)
                           \cup {"id:" \o toolCallsForThisSubAgent[j].id :
                                    j \in 1..Len(toolCallsForThisSubAgent)},
                !.a = st.a \cup {toolCallsForThisSubAgent[j].id :
                                    j \in 1..Len(toolCallsForThisSubAgent)}]
        ELSE IF Len(subagentToolCalls) > 0 /\ typesAgree
        THEN LET added == AddBundleCalls(
                            [list |-> st.mm[k].subagentToolCalls,
                             g |-> st.g, a |-> st.a, n |-> st.n],
                            subagentToolCalls, 1, toolCallId, m,
                            Or(expectedSubagentType, subagentType), {}, rnd)
             IN  [mm |-> [st.mm EXCEPT ![k].subagentToolCalls = added.list],
                  g |-> added.g, a |-> added.a, n |-> added.n]
        ELSE st

\* the second pass without the split by origin: every tool result is searched
\* among the top-level calls
SecondPassMessageAnyKind(st, m, subagentToolCallsMap, rnd) ==
    IF m.type # "tool" \/ ~Truthy(m.tool_call_id) THEN st
    ELSE
    LET toolCallId == m.tool_call_id
        done(tc) == [tc EXCEPT !.status = "completed",
                               !.result = extractStringFromMessageContent(m)]
        k == findIndex(st.mm, LAMBDA e :
                findIndex(e.toolCalls, LAMBDA tc : tc.id = toolCallId) # 0)
        j == findIndex(st.mm[k].toolCalls, LAMBDA tc : tc.id = toolCallId)
    IN  IF k = 0 THEN st
        ELSE MergeBundle([st EXCEPT !.mm[k].toolCalls[j] = done(@)],
                         k, m, subagentToolCallsMap, rnd)

\* ChatInterface.tsx 312-563, body of the second forEach
SecondPassMessage(st, m, subagentToolCallsMap, rnd) ==
    IF m.type # "tool" \/ ~Truthy(m.tool_call_id) THEN st
    ELSE
    LET toolCallId == m.tool_call_id
        isSubagentToolMessage == m.src # undefined
        done(tc) == [tc EXCEPT !.status = "completed",
                               !.result = extractStringFromMessageContent(m)]
    IN  IF isSubagentToolMessage
        THEN LET k == findIndex(st.mm, LAMBDA e :
                        findIndex(e.subagentToolCalls,
                                  LAMBDA tc : tc.id = toolCallId) # 0)
                 j == findIndex(st.mm[k].subagentToolCalls,
                                LAMBDA tc : tc.id = toolCallId)
             IN  IF k = 0 THEN st
                 ELSE [st EXCEPT !.mm[k].subagentToolCalls[j] = done(@)]
        ELSE LET k == findIndex(st.mm, LAMBDA e :
                        findIndex(e.toolCalls, LAMBDA tc : tc.id = toolCallId) # 0)
                 j == findIndex(st.mm[k].toolCalls, LAMBDA tc : tc.id = toolCallId)
             IN  IF k = 0 THEN st
                 ELSE MergeBundle([st EXCEPT !.mm[k].toolCalls[j] = done(@)],
                                  k, m, subagentToolCallsMap, rnd)

RECURSIVE SecondPass(_, _, _, _, _)
SecondPass(st, messages, i, subagentToolCallsMap, rnd) ==
    IF i > Len(messages) THEN st
    ELSE SecondPass(SecondPassMessage(st, messages[i], subagentToolCallsMap, rnd),
                    messages, i + 1, subagentToolCallsMap, rnd)

----------------------------------------------------------------------------
(* processedMessages, third pass, order and avatar *)

\* a third pass that gives an entry to a tool-result message as well
RECURSIVE ThirdPassToolEntries(_, _, _)
ThirdPassToolEntries(mm, messages, i) ==
    IF i > Len(messages) THEN mm
    ELSE LET m == messages[i]
         IN  IF m.type \in {"human", "tool"} /\ entryIndex(mm, m.id) = 0
             THEN ThirdPassToolEntries(Append(mm, [message |-> m, toolCalls |-> << >>,
                                                   subagentToolCalls |-> << >>]),
                                       messages, i + 1)
             ELSE ThirdPassToolEntries(mm, messages, i + 1)

\* ChatInterface.tsx 567-574
RECURSIVE ThirdPass(_, _, _)
ThirdPass(mm, messages, i) ==
    IF i > Len(messages) THEN mm
    ELSE LET m == messages[i]
         IN  IF m.type = "human" /\ entryIndex(mm, m.id) = 0
             THEN ThirdPass(Append(mm, [message |-> m, toolCalls |-> << >>,
                                        subagentToolCalls |-> << >>]),
                            messages, i + 1)
             ELSE ThirdPass(mm, messages, i + 1)

\* ChatInterface.tsx 578-588: entries in the order of the messages
RECURSIVE InMessageOrder(_, _, _, _, _)
InMessageOrder(processedArray, processedMessageIds, mm, messages, i) ==
    IF i > Len(messages)
    THEN [array |-> processedArray, ids |-> processedMessageIds]
    ELSE LET k == entryIndex(mm, messages[i].id)
         IN  IF k # 0 /\ messages[i].id \notin processedMessageIds
             THEN InMessageOrder(Append(processedArray, mm[k]),
                                 processedMessageIds \cup {messages[i].id},
                                 mm, messages, i + 1)
             ELSE InMessageOrder(processedArray, processedMessageIds, mm,
                                 messages, i + 1)

\* processedArrayOf returning the entries in the iteration order of messageMap
processedArrayInMapOrder(mm, messages) == mm

\* ChatInterface.tsx 578-596
processedArrayOf(mm, messages) ==
    LET inOrder == InMessageOrder(<< >>, {}, mm, messages, 1)
    IN  inOrder.array
        \o SelectSeq(mm, LAMBDA e : e.message.id \notin inOrder.ids)

\* the avatar shown on every entry
withShowAvatarAlways(processedArray) ==
    [index \in 1..Len(processedArray) |->
        [message |-> processedArray[index].message,
         toolCalls |-> processedArray[index].toolCalls,
         subagentToolCalls |-> processedArray[index].subagentToolCalls,
         showAvatar |-> TRUE]]

\* ChatInterface.tsx 598-605
withShowAvatar(processedArray) ==
    [index \in 1..Len(processedArray) |->
        [message |-> processedArray[index].message,
         toolCalls |-> processedArray[index].toolCalls,
         subagentToolCalls |-> processedArray[index].subagentToolCalls,
         showAvatar |-> IF index > 1
                        THEN processedArray[index].message.type
                             # processedArray[index - 1].message.type
                        ELSE TRUE]]

\* ChatInterface.tsx 126-606: the whole useMemo; rnd stands for Math.random()
processedMessages(messages, subagentToolCallsMap, rnd) ==
    LET first == FirstPass(EmptyPass, messages, 1, rnd)
        second == SecondPass(first, messages, 1, subagentToolCallsMap, rnd)
        third == ThirdPass(second.mm, messages, 1)
    IN  withShowAvatar(processedArrayOf(third, messages))

----------------------------------------------------------------------------
(* useChat: what is handed to ChatInterface *)

MessageIds(msgs) == {msgs[i].id : i \in 1..Len(msgs)}

\* mergedMessages putting the locally buffered sub-agent messages first
mergedMessagesLocalFirst(stream, localMsgs) ==
    SelectSeq(localMsgs,
              LAMBDA m : Truthy(m.id) /\ m.id \notin MessageIds(stream))
    \o stream

\* useChat.ts 538-557
mergedMessages(stream, localMsgs) ==
    LET streamMessageIds == MessageIds(stream)
        uniqueSubagentMessages ==
            SelectSeq(localMsgs,
                      LAMBDA m : Truthy(m.id) /\ m.id \notin streamMessageIds)
    IN  stream \o uniqueSubagentMessages

\* { ...a, ...b } on maps from delegation id to bundle
Spread(a, b) ==
    [k \in DOMAIN a \cup DOMAIN b |-> IF k \in DOMAIN b THEN b[k] ELSE a[k]]

\* useChat.ts 521-528
mergedSubagentToolCallsMap(values, localMap) == Spread(values, localMap)

EmptyMap == [k \in {} |-> Bundle(<< >>, undefined)]

----------------------------------------------------------------------------
(* The events the agent server can deliver *)

TaskCall(id) == RawCall(id, "task")
SearchCall(id) == RawCall(id, "search")

\* the bundle of a finished "researcher" sub-agent: two calls, both completed
DoneBundle ==
    Bundle(<< BundleCall("s1", "completed", "found"),
              BundleCall("s2", "completed", "read") >>, "researcher")

Human1 == HumanMsg("h1", "hello")
\* the assistant message m1 while it declares one delegation, and once it
\* declares two parallel delegations of the same sub-agent type
Ai1    == AiMsg("m1", << TaskCall("t1") >>)
Ai12   == AiMsg("m1", << TaskCall("t1"), TaskCall("t2") >>)
\* m1 delivered again as plain text, without its tool calls
AiBare == AiMsg("m1", << >>)
\* a tool call that arrives without a provider id
AiNoId == AiMsg("m2", << SearchCall(undefined) >>)
Tool1  == ToolMsg("r1", "t1", "done1")
Tool2  == ToolMsg("r2", "t2", "done2")
\* sub-agent messages; both sub-agents name a call s1
Sub1   == SubAiMsg("x1", "t1", "researcher", << SearchCall("s1"), SearchCall("s2") >>)
Sub2   == SubAiMsg("x2", "t2", "researcher", << SearchCall("s1") >>)
\* the same message carrying its calls in _subagent_tool_calls as well
Sub1Both == [Sub1 EXCEPT !.subTcs = Some(<< SearchCall("s1"), SearchCall("s2") >>)]
SubTool1 == SubToolMsg("q1", "s1", "t1", "researcher", "found")

StreamUniverse ==
    { Human1, Ai1, Ai12, AiNoId,
      Tool1, WithKwBundle(Tool1, DoneBundle), WithJsonBundle(Tool1, DoneBundle),
      WithKwBundle(Tool2, DoneBundle),
      Sub1, Sub1Both, SubTool1 }

\* messages that arrive under an id stream.messages already holds: any of the
\* above, or the assistant message m1 once more without its tool calls
RedeliverUniverse == StreamUniverse \cup { AiBare }

\* sub-agent messages written to the custom stream while the sub-agents run
CustomUniverse == { Sub1, Sub2 }

\* data.messages of one custom event: nothing, one message, or a batch that
\* repeats a message
CustomBatches ==
    {<< >>} \cup {<< m >> : m \in CustomUniverse} \cup {<< Sub1, Sub1 >>}

MapUniverse == { [k \in {"t1"} |-> DoneBundle] }

Seeds == 0..MaxSeed

----------------------------------------------------------------------------
(* Threads *)

null == "null"

\* threads that exist on the server when the page opens, and the id the server
\* gives to the thread created by the first submit of a new conversation
ExistingThreads == {"A", "B"}
NewThreadId == "N"
Threads == ExistingThreads \cup {NewThreadId}

\* the conversation a threadId value stands for: a new conversation has no id
\* until onThreadId delivers one
Conversation(t) == IF t = null THEN NewThreadId ELSE t

----------------------------------------------------------------------------
(* Token usage: useChat.ts 196-258, 318-390, 437-517 and page.tsx 28-35, 130-155 *)

\* a usage snapshot; completion, reasoning, cache, prompt and cost are copied
\* the same way as the three counts kept here
Usage(input, output) == [input |-> input, output |-> output, total |-> input + output]

ZeroUsage == Usage(0, 0)

\* the usage the agent reports in a conversation: cumulative counts that differ
\* from one conversation to the other
ThreadUsages(t) ==
    IF t = "A" THEN {Usage(10, 1), Usage(20, 2)}
    ELSE IF t = "B" THEN {Usage(30, 3)}
    ELSE {Usage(40, 4)}

\* token_usage of the thread state kept by the server: A has used tokens
StoredUsage(t) == IF t = "A" THEN Some(Usage(10, 1)) ELSE Absent

\* JSON.stringify({input: usage.input || 0, ...}) of an optional snapshot
usageString(usage) == IF usage = Absent THEN ZeroUsage ELSE Arr(usage)

\* what the token callbacks read and write
TokenState == [tokenUsage |-> tokenUsage,
               previousTokenUsageRef |-> previousTokenUsageRef,
               hasReceivedRealTimeUpdate |-> hasReceivedRealTimeUpdate,
               surfaced |-> surfaced]

\* onTokenUsageUpdateRef.current(usage): handleTokenUsageUpdate, page.tsx 213-215
onTokenUsageUpdate(tk, usage) ==
    [tk EXCEPT !.tokenUsage = usage, !.surfaced = Some(usage)]

\* useChat.ts 196-258: token_usage of one node of an update event; the second
\* block repeats the comparison of the first and finds the ref already equal
updateTokenUsage(tk, usage) ==
    IF usage = Absent THEN tk
    ELSE LET marked == [tk EXCEPT !.hasReceivedRealTimeUpdate = TRUE]
         IN  IF marked.previousTokenUsageRef # Some(usageString(usage))
             THEN onTokenUsageUpdate(
                    [marked EXCEPT !.previousTokenUsageRef = Some(usageString(usage))],
                    usageString(usage))
             ELSE marked

\* useChat.ts 318-390: effect on stream.values
valuesTokenEffect(tk, usage) ==
    LET str == usageString(usage)
        hasNonZeroValues == str.input > 0 \/ str.output > 0 \/ str.total > 0
    IN  IF tk.previousTokenUsageRef = Some(str) THEN tk
        ELSE IF hasNonZeroValues \/ tk.previousTokenUsageRef = Absent
        THEN onTokenUsageUpdate(
                [tk EXCEPT !.previousTokenUsageRef = Some(str),
                           !.hasReceivedRealTimeUpdate = TRUE], str)
        ELSE [tk EXCEPT !.previousTokenUsageRef = Some(str)]

\* useChat.ts 437-511: fallback effect on stream.values and threadId
fallbackTokenEffect(tk, usage, thread) ==
    LET str == usageString(usage)
    IN  IF tk.previousTokenUsageRef = Some(str) THEN tk
        ELSE IF usage # Absent /\ (~tk.hasReceivedRealTimeUpdate \/ thread # null)
        THEN onTokenUsageUpdate([tk EXCEPT !.previousTokenUsageRef = Some(str)], str)
        ELSE IF usage = Absent /\ ~tk.hasReceivedRealTimeUpdate
        THEN onTokenUsageUpdate([tk EXCEPT !.previousTokenUsageRef = Some(str)],
                                ZeroUsage)
        ELSE tk

\* useChat.ts 514-517: effect on threadId
resetTokenEffect(tk) ==
    [tk EXCEPT !.hasReceivedRealTimeUpdate = FALSE, !.previousTokenUsageRef = Absent]

\* the token variables after the callbacks left tk
SetToken(tk) ==
    /\ tokenUsage' = tk.tokenUsage
    /\ previousTokenUsageRef' = tk.previousTokenUsageRef
    /\ hasReceivedRealTimeUpdate' = tk.hasReceivedRealTimeUpdate
    /\ surfaced' = tk.surfaced

\* stream.values has changed and holds token_usage usage: the effect of 318-390,
\* then the one of 437-511
ValuesEffects(usage) ==
    /\ streamUsage' = usage
    /\ SetToken(fallbackTokenEffect(valuesTokenEffect(TokenState, usage),
                                    usage, threadId))

----------------------------------------------------------------------------
(* Files: fileContentUtils, useChat.ts 271-295, page.tsx 107-211 *)

\* file content as the agent stores it: a string, or an object with the lines
RawString(text) == [kind |-> "string", lines |-> << text >>]
RawLines(lines) == [kind |-> "lines", lines |-> lines]

RECURSIVE Join(_, _)
Join(lines, sep) ==
    IF lines = << >> THEN ""
    ELSE IF Len(lines) = 1 THEN lines[1]
    ELSE lines[1] \o sep \o Join(Tail(lines), sep)

\* extractFileContent: a string as it is, an array of lines joined by newlines
extractFileContent(content) ==
    IF content.kind = "string" THEN content.lines[1] ELSE Join(content.lines, "\n")

NoFiles == [path \in {} |-> ""]

\* JSON.stringify(savedOutline, null, 2) and JSON.parse of the outline file; an
\* outline is known by its revision
SerializeOutline(rev) == "outline-" \o ToString(rev)
ParseOutline(content) ==
    IF \E rev \in 0..(MaxEdits + 1) : SerializeOutline(rev) = content
    THEN Some(CHOOSE rev \in 0..(MaxEdits + 1) : SerializeOutline(rev) = content)
    ELSE Absent

OutlinePath == "project/plan_outline.json"

\* files of the thread state kept by the server
StoredFiles(t) ==
    IF t = "A" THEN [path \in {OutlinePath} |-> RawString(SerializeOutline(0))]
    ELSE IF t = "B" THEN [path \in {"b.md"} |-> RawLines(<< "B", "notes" >>)]
    ELSE [path \in {} |-> RawString("")]

\* the files a node of the running agent reports in conversation t
NodeFiles(t) == [path \in {"draft-" \o t \o ".md"} |-> RawLines(<< "draft" >>)]

normalizedFiles(rawFiles) == [path \in DOMAIN rawFiles |-> extractFileContent(rawFiles[path])]

\* page.tsx 194-211: merge, a file with empty content keeps what it had
handleFilesUpdate(prevFiles, newFiles) ==
    LET updated == {path \in DOMAIN newFiles : newFiles[path] # ""}
    IN  [path \in DOMAIN prevFiles \cup updated |->
            IF path \in updated THEN newFiles[path] ELSE prevFiles[path]]

\* useChat.ts 271-295: files of one node of an update event
updateFiles(prevFiles, nodeFiles) ==
    IF nodeFiles = Absent \/ DOMAIN Arr(nodeFiles) = {} THEN prevFiles
    ELSE handleFilesUpdate(prevFiles, normalizedFiles(Arr(nodeFiles)))

\* page.tsx 69-98: the outline shown in the sidebar
outline(fs) ==
    IF OutlinePath \in DOMAIN fs /\ fs[OutlinePath] # ""
    THEN ParseOutline(fs[OutlinePath]) ELSE Absent

\* setFiles, and PlanOutline under it: mounted with useState(outline) while there
\* is an outline, and its effect on the outline prop, which is parsed anew from
\* every files object, puts back the prop whenever the local copy differs
SetFiles(fs) ==
    /\ files' = fs
    /\ localOutline' = outline(fs)

----------------------------------------------------------------------------
(* The outline: parseOutlineJSON and the reordering of PlanOutline *)

\* an entry of the sections list of an outline payload: null, or an object
\* whose keys id, title, description and order may be missing
NullEntry ==
    [isNull |-> TRUE, id |-> undefined, title |-> undefined,
     description |-> Absent, order |-> Absent]
SectionEntry(id, title, description, order) ==
    [isNull |-> FALSE, id |-> id, title |-> title,
     description |-> description, order |-> order]

\* the text handed to parseOutlineJSON, known by what JSON.parse makes of it:
\* a syntax error, or an object whose sections key is missing, holds a string,
\* or holds an array
Payload(kind, sectionsKind, sections) ==
    [kind |-> kind, sectionsKind |-> sectionsKind, sections |-> sections]

\* the value a call has returned (null is Absent)
NotCalled == [called |-> FALSE, value |-> Absent]

\* part_004 121-123; reading section.id of a null entry throws a TypeError
validSections(sections) ==
    SelectSeq(sections, LAMBDA section :
        /\ Truthy(section.id)
        /\ Truthy(section.title)
        /\ section.description # Absent
        /\ section.order # Absent)

\* part_004 94-140; every exception of the try block ends in return null
parseOutlineJSON(payload) ==
    IF payload.kind # "object" THEN Absent                  \* JSON.parse throws
    ELSE IF payload.sectionsKind # "array" THEN Absent
    ELSE IF \E i \in 1..Len(payload.sections) : payload.sections[i].isNull
         THEN Absent                                        \* TypeError, caught
    ELSE IF Len(validSections(payload.sections)) = 0 THEN Absent
    ELSE Some([sections |-> validSections(payload.sections)])

\* the entries the agent can write in a sections list
SectionEntries ==
    { SectionEntry("a", "Intro", Some("first"), Some(1)),
      SectionEntry("b", "Body", Some(""), Some(0)),
      SectionEntry(undefined, "Intro", Some("first"), Some(1)),
      SectionEntry("c", "", Some("first"), Some(1)),
      SectionEntry("d", "Intro", Absent, Some(1)),
      SectionEntry("e", "Intro", Some("first"), Absent),
      NullEntry }

Payloads ==
    { Payload("broken", "missing", << >>), Payload("object", "missing", << >>),
      Payload("object", "string", << >>) }
    \cup {Payload("object", "array", sections) :
                sections \in UNION {[1..n -> SectionEntries] : n \in 0..MaxEntries}}

\* PlanOutline 250: [...sections].sort((a, b) => a.order - b.order), a stable
\* sort; insertion of x after the elements whose order is not greater
RECURSIVE InsertByOrder(_, _)
InsertByOrder(sorted, x) ==
    IF sorted = << >> THEN << x >>
    ELSE IF Head(sorted).order <= x.order
         THEN << Head(sorted) >> \o InsertByOrder(Tail(sorted), x)
    ELSE << x >> \o sorted

RECURSIVE SortFrom(_, _, _)
SortFrom(sorted, sections, i) ==
    IF i > Len(sections) THEN sorted
    ELSE SortFrom(InsertByOrder(sorted, sections[i]), sections, i + 1)

sortedSections(current) == SortFrom(<< >>, current.sections, 1)

\* sections.map((s, i) => ({ ...s, order: i + 1 })), positions counted from 1
reorderedSections(sections) ==
    [i \in 1..Len(sections) |-> [sections[i] EXCEPT !.order = i]]

\* [a[i], a[j]] = [a[j], a[i]]
Swap(a, i, j) ==
    [k \in 1..Len(a) |-> IF k = i THEN a[j] ELSE IF k = j THEN a[i] ELSE a[k]]

\* PlanOutline 224-235; index counts from 0 as in the source
handleMoveUp(current, index) ==
    IF index = 0 THEN current
    ELSE [current EXCEPT
            !.sections = reorderedSections(Swap(current.sections, index, index + 1))]

\* PlanOutline 237-248
handleMoveDown(current, index) ==
    IF index = Len(current.sections) - 1 THEN current
    ELSE [current EXCEPT
            !.sections = reorderedSections(Swap(current.sections, index + 1, index + 2))]

\* the outlines PlanOutline can be mounted with: n sections, stored in any
\* order with respect to their order field
MountedOutlines ==
    UNION {{[sections |-> [i \in 1..n |->
                            [id |-> "sec" \o ToString(i), order |-> orders[i]]]]
                : orders \in Permutations(1..n)} : n \in 1..MaxSections}

----------------------------------------------------------------------------
(* State machine *)

Held == Len(streamMessages) + Len(localSubagentMessages)

RECURSIVE AppendNew(_, _, _)
AppendNew(log, ids, i) ==
    IF i > Len(ids) THEN log
    ELSE AppendNew(IF ids[i] \in SeqToSet(log) THEN log ELSE Append(log, ids[i]),
                   ids, i + 1)

\* Math.random() is called only for a tool call without an id
NeedsDraw(messages, map) ==
    \/ \E i \in 1..Len(messages) :
            \E j \in 1..Len(toolCallsInMessage(messages[i])) :
                ~Truthy(toolCallsInMessage(messages[i])[j].id)
    \/ \E i \in 1..Len(messages) :
            \E j \in 1..Len(Arr(PayloadBundle(messages[i]).calls)) :
                ~Truthy(Arr(PayloadBundle(messages[i]).calls)[j].id)
    \/ \E k \in DOMAIN map :
            \E j \in 1..Len(map[k].tool_calls) : ~Truthy(map[k].tool_calls[j].id)

\* the useMemo of ChatInterface.tsx 126-606 runs again on the new inputs;
\* the outcome of Math.random() is open whenever it is called
Reconcile ==
    LET messages == mergedMessages(streamMessages', localSubagentMessages')
        map == mergedSubagentToolCallsMap(streamMap', localSubagentToolCallsMap')
        draws == NeedsDraw(messages, map)
        same == /\ ~draws
                /\ streamMessages' = streamMessages
                /\ localSubagentMessages' = localSubagentMessages
                /\ streamMap' = streamMap
                /\ localSubagentToolCallsMap' = localSubagentToolCallsMap
    IN  \E rnd \in IF draws THEN Seeds ELSE {0} :
            processed' = IF same THEN processed     \* same inputs, same value
                         ELSE processedMessages(messages, map, rnd)

\* the page has mounted without a threadId: the mount effects have surfaced a
\* zero usage and have reset the refs
PageMounted ==
    /\ streamMessages = << >>
    /\ streamMap = EmptyMap
    /\ localSubagentMessages = << >>
    /\ localSubagentToolCallsMap = EmptyMap
    /\ processed = << >>
    /\ delivered = << >>
    /\ threadId = null
    /\ streamThread = null
    /\ fetching = {}
    /\ loadedFor = null
    /\ streamUsage = Absent
    /\ tokenUsage = ZeroUsage
    /\ previousTokenUsageRef = Absent
    /\ hasReceivedRealTimeUpdate = FALSE
    /\ observed = Absent
    /\ surfaced = Some(ZeroUsage)
    /\ usageEventSeen = FALSE
    /\ files = NoFiles
    /\ sendMessageCallbackRef = null
    /\ submitted = << >>
    /\ outlineSaves = 0
    /\ bufferedUnder = Conversation(null)

\* no outline is shown and parseOutlineJSON has not been called
Init ==
    /\ PageMounted
    /\ localOutline = Absent
    /\ jsonString = Payload("none", "missing", << >>)
    /\ parsedOutline = NotCalled

\* stream.messages gains a message with an id it did not hold, while fewer than
\* cap messages are held
StreamAppendUpTo(universe, cap) ==
    \E m \in universe :
        /\ Held < cap
        /\ m.id \notin MessageIds(streamMessages)
        /\ streamThread = threadId
        /\ streamMessages' = Append(streamMessages, m)
        /\ delivered' = AppendNew(delivered, << m.id >>, 1)
        /\ UNCHANGED << streamMap, localSubagentMessages, localSubagentToolCallsMap >>
        /\ ValuesEffects(streamUsage)
        /\ UNCHANGED << observed, usageEventSeen >>
        /\ UNCHANGED << outlineVars, threadVars, files, bufferedUnder >>
        /\ Reconcile

StreamAppendFrom(universe) == StreamAppendUpTo(universe, MaxMsgs)

StreamAppend == StreamAppendFrom(StreamUniverse)

\* stream.messages gains a message whose id it already holds (a re-delivery)
StreamRedeliver ==
    \E m \in RedeliverUniverse :
        /\ Held < MaxMsgs
        /\ m.id \in MessageIds(streamMessages)
        /\ streamThread = threadId
        /\ streamMessages' = Append(streamMessages, m)
        /\ UNCHANGED << delivered, streamMap, localSubagentMessages,
                        localSubagentToolCallsMap >>
        /\ ValuesEffects(streamUsage)
        /\ UNCHANGED << observed, usageEventSeen >>
        /\ UNCHANGED << outlineVars, threadVars, files, bufferedUnder >>
        /\ Reconcile

\* stream.values.subagent_tool_calls_map changes (state snapshot)
StreamValues ==
    \E map \in MapUniverse :
        /\ streamThread = threadId
        /\ streamMap # map
        /\ streamMap' = map
        /\ UNCHANGED << streamMessages, localSubagentMessages,
                        localSubagentToolCallsMap, delivered >>
        /\ ValuesEffects(streamUsage)
        /\ UNCHANGED << observed, usageEventSeen >>
        /\ UNCHANGED << outlineVars, threadVars, files, bufferedUnder >>
        /\ Reconcile

\* useChat.ts 86-143
handleCustomEventFrom(batches, maps) ==
    \E msgs \in batches, map \in maps :
        /\ streamThread = threadId
        /\ msgs # << >> \/ map # EmptyMap
        /\ Held + Len(msgs) <= MaxMsgs
        /\ LET existingIds == MessageIds(localSubagentMessages)
               newMessages == SelectSeq(msgs,
                    LAMBDA m : Truthy(m.id) /\ m.id \notin existingIds)
           IN  /\ localSubagentMessages' = localSubagentMessages \o newMessages
               /\ delivered' = AppendNew(delivered,
                                    [i \in 1..Len(msgs) |-> msgs[i].id], 1)
        /\ localSubagentToolCallsMap' = Spread(localSubagentToolCallsMap, map)
        /\ bufferedUnder' = Conversation(threadId)
        /\ UNCHANGED << streamMessages, streamMap >>
        /\ UNCHANGED << tokenVars, outlineVars, threadVars, files >>
        /\ Reconcile

handleCustomEvent == handleCustomEventFrom(CustomBatches, {EmptyMap} \cup MapUniverse)

\* useChat.ts 145-299 for one node: nodeData holds an optional bundle map, an
\* optional token_usage and optional files
handleNode(nodeData) ==
    /\ streamThread = threadId
    /\ localSubagentToolCallsMap' =
            IF nodeData.subagent_tool_calls_map = Absent THEN localSubagentToolCallsMap
            ELSE Spread(localSubagentToolCallsMap, Arr(nodeData.subagent_tool_calls_map))
    /\ SetToken(updateTokenUsage(TokenState, nodeData.token_usage))
    /\ observed' = IF nodeData.token_usage = Absent THEN observed
                   ELSE nodeData.token_usage
    /\ usageEventSeen' = (usageEventSeen \/ nodeData.token_usage # Absent)
    /\ streamUsage' = streamUsage
    /\ IF nodeData.files = Absent \/ DOMAIN Arr(nodeData.files) = {}
       THEN UNCHANGED << files, localOutline >>     \* onFilesUpdate is not called
       ELSE SetFiles(updateFiles(files, nodeData.files))
    /\ bufferedUnder' = Conversation(threadId)
    /\ UNCHANGED << streamMessages, streamMap, localSubagentMessages, delivered >>
    /\ UNCHANGED << sendMessageCallbackRef, submitted, outlineSaves, parseVars, threadVars >>
    /\ Reconcile

\* a node update that carries a bundle map
handleUpdateEvent ==
    \E map \in MapUniverse :
        handleNode([subagent_tool_calls_map |-> Some(map), token_usage |-> Absent,
                    files |-> Absent])

\* the component renders again and React recomputes the useMemo; without a
\* Math.random() call the recomputation returns the value it returned before
Rerender ==
    /\ NeedsDraw(mergedMessages(streamMessages, localSubagentMessages),
                 mergedSubagentToolCallsMap(streamMap, localSubagentToolCallsMap))
    /\ UNCHANGED << streamMessages, streamMap, localSubagentMessages,
                    localSubagentToolCallsMap, delivered >>
    /\ UNCHANGED << tokenVars, outlineVars, threadVars, files, bufferedUnder >>
    /\ Reconcile

Next ==
    \/ StreamAppend
    \/ StreamRedeliver
    \/ StreamValues
    \/ handleCustomEvent
    \/ handleUpdateEvent
    \/ Rerender

Spec == Init /\ [][Next]_vars

----------------------------------------------------------------------------
(* Threads, token usage, files and the outline: the page around the chat *)

\* useState("gpt-4o") in ChatInterface.tsx 60
selectedModel == "gpt-4o"

\* messages of the thread state kept by the server when the page opens
BaseMessages(t) ==
    IF t = "A" THEN << Human1, Ai1 >>
    ELSE IF t = "B" THEN << Human1 >>
    ELSE << >>

\* the human turns submitted in conversation t
SubmittedIn(t) ==
    LET mine == SelectSeq(submitted, LAMBDA sub : sub.thread = t)
    IN  [i \in 1..Len(mine) |-> HumanMsg(mine[i].id, mine[i].message)]

\* the messages of thread t that useStream loads
ThreadMessages(t) == IF t = null THEN << >> ELSE BaseMessages(t) \o SubmittedIn(t)

\* the effects on threadId in the order of their declaration, run on the token
\* refs: useChat.ts 437-511 (stream.values is still what it was), then 514-517
threadTokenEffects(tk, thread) ==
    resetTokenEffect(fallbackTokenEffect(tk, streamUsage, thread))

resetLocalStateNever == UNCHANGED << localSubagentToolCallsMap, localSubagentMessages >>

\* useChat.ts 531-534: effect on threadId
resetLocalState ==
    /\ localSubagentToolCallsMap' = EmptyMap
    /\ localSubagentMessages' = << >>

\* page.tsx 107-117, the effect on threadId up to the await: without a thread
\* the files are dropped, with one getState is awaited
startFetchThreadState(thread) ==
    IF thread = null
    THEN SetFiles(NoFiles) /\ UNCHANGED fetching
    ELSE fetching' = fetching \cup {thread} /\ UNCHANGED << files, localOutline >>

configurableAlways(isFirstMessage) == Some(selectedModel)

\* useChat.ts 400-413: config.configurable.model of a submit
configurable(isFirstMessage) ==
    IF isFirstMessage /\ Truthy(selectedModel) THEN Some(selectedModel) ELSE Absent

\* useChat.ts 392-428; stream.submit adds the human message optimistically. In a
\* conversation without an id the server creates the thread, onThreadId stores
\* its id and the effects on threadId run. The caller says what becomes of files
sendMessage(message) ==
    LET humanMessage == HumanMsg("u" \o ToString(Len(submitted) + 1), message)
        isFirstMessage == Len(streamMessages) = 0
        afterSubmit == fallbackTokenEffect(valuesTokenEffect(TokenState, streamUsage),
                                           streamUsage, threadId)
    IN  /\ submitted' = Append(submitted,
                [thread |-> Conversation(threadId), id |-> humanMessage.id,
                 message |-> message, model |-> configurable(isFirstMessage),
                 held |-> Len(streamMessages)])
        /\ streamMessages' = Append(streamMessages, humanMessage)
        /\ delivered' = AppendNew(delivered, << humanMessage.id >>, 1)
        /\ IF threadId = null
           THEN /\ threadId' = NewThreadId
                /\ streamThread' = NewThreadId
                /\ SetToken(threadTokenEffects(afterSubmit, NewThreadId))
                /\ resetLocalState
                /\ fetching' = fetching \cup {NewThreadId}
                /\ loadedFor' = null
                /\ usageEventSeen' = FALSE
           ELSE /\ SetToken(afterSubmit)
                /\ UNCHANGED << threadId, streamThread, fetching, loadedFor,
                                usageEventSeen,
                                localSubagentMessages, localSubagentToolCallsMap >>
        /\ UNCHANGED << streamMap, streamUsage, observed, bufferedUnder >>
        /\ Reconcile

\* the conversation without an id can still be given the new thread's id
CanSubmit ==
    /\ streamThread = threadId
    /\ Len(submitted) < MaxSubmits
    /\ threadId = null => \A i \in 1..Len(submitted) : submitted[i].thread # NewThreadId

\* ChatInterface.tsx 92-101
handleSubmit ==
    /\ CanSubmit
    /\ sendMessage("hello")
    /\ UNCHANGED << files, localOutline, sendMessageCallbackRef, outlineSaves, parseVars >>

\* the assistant answers: stream.messages gains a message while the run streams
ReplyUniverse == { AiMsg("m9", << >>) }
StreamReply == threadId # null /\ StreamAppendFrom(ReplyUniverse)

\* threadId becomes t: the render, then the effects on threadId (useChat.ts
\* 437-534, page.tsx 107-117); useStream still holds what it held. setFiles({})
\* of handleNewThread and of the effect without a thread give the same map
ThreadChange(t) ==
    /\ threadId' = t
    /\ SetToken(threadTokenEffects(TokenState, t))
    /\ resetLocalState
    /\ startFetchThreadState(t)
    /\ loadedFor' = null
    /\ usageEventSeen' = FALSE
    /\ UNCHANGED << streamMessages, streamMap, streamUsage, streamThread, delivered,
                    observed, sendMessageCallbackRef, submitted, outlineSaves, parseVars,
                    bufferedUnder >>
    /\ Reconcile

\* ChatInterface.tsx 112-118: a thread of the history is selected
handleThreadSelect ==
    \E id \in ExistingThreads \cup {submitted[i].thread : i \in 1..Len(submitted)} :
        /\ streamThread = threadId
        /\ id # threadId
        /\ ThreadChange(id)

\* ChatInterface.tsx 103-110 and page.tsx 233-239
handleNewThread ==
    /\ streamThread = threadId
    /\ threadId # null
    /\ ThreadChange(null)

\* useStream has the thread's history (none without a thread): stream.messages
\* and stream.values change, and the effects on stream.values run
useStream ==
    LET usage == IF threadId = null THEN Absent ELSE StoredUsage(threadId)
    IN  /\ streamThread # threadId
        /\ streamThread' = threadId
        /\ streamMessages' = ThreadMessages(threadId)
        /\ streamMap' = EmptyMap
        /\ ValuesEffects(usage)
        /\ observed' = usage
        /\ UNCHANGED << localSubagentMessages, localSubagentToolCallsMap, delivered,
                        usageEventSeen,
                        threadId, fetching, loadedFor, outlineVars, files,
                        bufferedUnder >>
        /\ Reconcile

\* page.tsx 118-184: getState of thread t has answered (ok) or has thrown
fetchThreadState ==
    \E t \in fetching, ok \in BOOLEAN :
        /\ fetching' = fetching \ {t}
        /\ IF ok
           THEN /\ tokenUsage' = usageString(StoredUsage(t))
                /\ SetFiles(Spread(files, normalizedFiles(StoredFiles(t))))
                /\ loadedFor' = t
           ELSE /\ SetFiles(NoFiles)
                /\ UNCHANGED << tokenUsage, loadedFor >>
        /\ UNCHANGED << messageVars, streamUsage, previousTokenUsageRef,
                        hasReceivedRealTimeUpdate, observed, surfaced,
                        usageEventSeen, threadId, streamThread, sendMessageCallbackRef, submitted,
                        outlineSaves, parseVars, bufferedUnder >>

\* a node update of the running agent that carries token usage
handleUpdateEventUsage ==
    \E u \in ThreadUsages(Conversation(threadId)) :
        /\ threadId # null
        /\ handleNode([subagent_tool_calls_map |-> Absent, token_usage |-> Some(u),
                       files |-> Absent])

\* a node update of the running agent that carries files
handleUpdateEventFiles ==
    /\ threadId # null
    /\ handleNode([subagent_tool_calls_map |-> Absent, token_usage |-> Absent,
                   files |-> Some(NodeFiles(Conversation(threadId)))])

\* a state snapshot of the running agent replaces stream.values
StreamValuesUsage ==
    \E u \in ThreadUsages(Conversation(threadId)) :
        /\ streamThread = threadId
        /\ threadId # null
        /\ streamUsage # Some(u)
        /\ ValuesEffects(Some(u))
        /\ observed' = Some(u)
        /\ usageEventSeen' = TRUE
        /\ UNCHANGED << messageVars, outlineVars, threadVars, files, bufferedUnder >>

\* PlanOutline: an edit (rename, reorder, add, remove) changes the local copy
EditOutline ==
    /\ streamThread = threadId
    /\ localOutline # Absent
    /\ Arr(localOutline) < MaxEdits
    /\ localOutline' = Some(Arr(localOutline) + 1)
    /\ UNCHANGED << messageVars, tokenVars, threadVars, files, bufferedUnder,
                    sendMessageCallbackRef, submitted, outlineSaves, parseVars >>

\* the text of the human turn that carries the outline, page.tsx 250
OutlineMessage(outlineJson) == "OUTLINE " \o outlineJson

\* page.tsx 241-252, reached from the Save Outline button (PlanOutline 272-281)
\* through TasksFilesSidebar.handleOutlineSave
handleOutlineSave ==
    /\ streamThread = threadId
    /\ localOutline # Absent
    /\ outlineSaves < MaxSaves
    /\ outlineSaves' = outlineSaves + 1
    /\ LET outlineJson == SerializeOutline(Arr(localOutline))
           saved == Spread(files, [path \in {OutlinePath} |-> outlineJson])
       IN  /\ SetFiles(saved)
           /\ IF sendMessageCallbackRef # null
              THEN sendMessage(OutlineMessage(outlineJson))
              ELSE UNCHANGED << messageVars, tokenVars, submitted, threadVars,
                                bufferedUnder >>
    /\ UNCHANGED << sendMessageCallbackRef, parseVars >>

\* page.tsx 254-257: the only assignment of the ref; ChatInterfaceProps has no
\* onSendMessageReady and ChatInterface never calls it, so no step takes it
handleSendMessageReady ==
    /\ sendMessageCallbackRef' = "sendMessage"
    /\ UNCHANGED << messageVars, tokenVars, threadVars, files, bufferedUnder,
                    localOutline, submitted, outlineSaves, parseVars >>

\* a custom event of the running agent
SessionCustomEvent ==
    threadId # null /\ handleCustomEventFrom({<< Sub1 >>}, {EmptyMap})

\* the thread changes, and what it started comes back
ThreadNext ==
    \/ handleThreadSelect
    \/ handleNewThread
    \/ useStream
    \/ fetchThreadState

\* token usage across threads
TokenNext ==
    \/ ThreadNext
    \/ handleUpdateEventUsage
    \/ StreamValuesUsage
    \/ StreamReply

TokenSpec == Init /\ [][TokenNext]_vars

\* sub-agent buffers across threads
BufferNext ==
    \/ ThreadNext
    \/ SessionCustomEvent
    \/ (threadId # null /\ handleUpdateEvent)

BufferSpec == Init /\ [][BufferNext]_vars

\* files and the outline across threads
FilesNext ==
    \/ ThreadNext
    \/ handleUpdateEventFiles
    \/ EditOutline
    \/ handleOutlineSave

FilesSpec == Init /\ [][FilesNext]_vars

\* submits across threads
SubmitNext ==
    \/ ThreadNext
    \/ handleSubmit
    \/ StreamReply

SubmitSpec == Init /\ [][SubmitNext]_vars

----------------------------------------------------------------------------
(* Tool results whose tool_call_id meets a call of the other kind, of another
   delegation, or no call at all *)

\* a main-agent result that names the id of a sub-agent call
ToolS1    == ToolMsg("r3", "s1", "late")
\* the result of s1 written inside the sub-agent of delegation t2
SubTool2  == SubToolMsg("q2", "s1", "t2", "researcher", "other")
\* a sub-agent result that names the id of a top-level call
SubToolT1 == SubToolMsg("q3", "t1", "t1", "researcher", "inner")

ResultUniverse ==
    { Ai1, Sub1, Sub2,
      Tool1, WithKwBundle(Tool1, DoneBundle), ToolS1,
      SubTool1, SubTool2, SubToolT1 }

ResultNext ==
    \/ StreamAppendUpTo(ResultUniverse, MaxResults)
    \/ StreamValues

ResultSpec == Init /\ [][ResultNext]_vars

----------------------------------------------------------------------------
(* Real-time fragments of a bundle and the bundle of the final state *)

\* what stream_writer has sent for a delegation while its sub-agent runs: the
\* first call only, not completed yet
FragmentBundle == Bundle(<< BundleCall("s1", "pending", undefined) >>, "researcher")

\* data.subagent_tool_calls_map of a custom event or of a node update
FragmentMaps ==
    { [k \in {"t1"} |-> FragmentBundle], [k \in {"t2"} |-> FragmentBundle],
      [k \in {"t1"} |-> DoneBundle] }

MapCustomEvent == handleCustomEventFrom({<< >>}, FragmentMaps)

MapUpdateEvent ==
    \E map \in FragmentMaps :
        handleNode([subagent_tool_calls_map |-> Some(map), token_usage |-> Absent,
                    files |-> Absent])

MapNext ==
    \/ StreamAppendFrom({ Human1, Ai12, Tool1, Tool2 })
    \/ MapCustomEvent
    \/ MapUpdateEvent
    \/ StreamValues

MapSpec == Init /\ [][MapNext]_vars

----------------------------------------------------------------------------
(* parseOutlineJSON applied to an outline payload *)

ParseInit ==
    /\ PageMounted
    /\ localOutline = Absent
    /\ jsonString \in Payloads
    /\ parsedOutline = NotCalled

ParseCall ==
    /\ ~parsedOutline.called
    /\ parsedOutline' = [called |-> TRUE, value |-> parseOutlineJSON(jsonString)]
    /\ UNCHANGED << messageVars, tokenVars, threadVars, files, bufferedUnder,
                    sendMessageCallbackRef, localOutline, submitted, outlineSaves,
                    jsonString >>

ParseSpec == ParseInit /\ [][ParseCall]_vars

----------------------------------------------------------------------------
(* PlanOutline: the move buttons of the displayed list *)

PlanInit ==
    /\ PageMounted
    /\ localOutline \in {Some(o) : o \in MountedOutlines}
    /\ jsonString = Payload("none", "missing", << >>)
    /\ parsedOutline = NotCalled

\* PlanOutline 289-314: the buttons of the section rendered at position index
\* of sortedSections; the first has no live up button, the last no down button
MoveUp ==
    \E index \in 1..(Len(sortedSections(Arr(localOutline))) - 1) :
        /\ localOutline' = Some(handleMoveUp(Arr(localOutline), index))
        /\ UNCHANGED << messageVars, tokenVars, threadVars, files, bufferedUnder,
                        sendMessageCallbackRef, submitted, outlineSaves, parseVars >>

MoveDown ==
    \E index \in 0..(Len(sortedSections(Arr(localOutline))) - 2) :
        /\ localOutline' = Some(handleMoveDown(Arr(localOutline), index))
        /\ UNCHANGED << messageVars, tokenVars, threadVars, files, bufferedUnder,
                        sendMessageCallbackRef, submitted, outlineSaves, parseVars >>

PlanNext ==
    \/ MoveUp
    \/ MoveDown

PlanSpec == PlanInit /\ [][PlanNext]_vars


----------------------------------------------------------------------------
(* page.tsx: the feed of the selected sub-agent *)

RECURSIVE Flatten(_)
Flatten(ss) == IF ss = << >> THEN << >> ELSE Head(ss) \o Flatten(Tail(ss))

\* the feed without the parentToolCallId filter
subAgentToolCallsAnyParent(selectedSubAgent, processedMsgs) ==
    IF selectedSubAgent = undefined THEN << >>
    ELSE Flatten([i \in 1..Len(processedMsgs) |-> processedMsgs[i].subagentToolCalls])

\* page.tsx 43-66; selectedSubAgent is null (undefined here) or the sub-agent's id
subAgentToolCalls(selectedSubAgent, processedMsgs) ==
    IF selectedSubAgent = undefined THEN << >>
    ELSE SelectSeq(
            Flatten([i \in 1..Len(processedMsgs) |-> processedMsgs[i].subagentToolCalls]),
            LAMBDA tc : tc.parentToolCallId = selectedSubAgent)

\* ChatInterface.tsx 669-683: the entries the main chat list renders; the
\* entries of sub-agent assistant messages are filtered out
messagesList(processedMsgs) ==
    SelectSeq(processedMsgs,
              LAMBDA data : ~(data.message.type = "ai" /\ data.message.src # undefined))

----------------------------------------------------------------------------
(* Vocabulary of the properties *)

\* what reconciliation is run on
Messages == mergedMessages(streamMessages, localSubagentMessages)
BundleMap == mergedSubagentToolCallsMap(streamMap, localSubagentToolCallsMap)

\* the delegations the agent server can make
Delegations == {"t1", "t2"}

IsMainAi(m)   == m.type = "ai" /\ m.src = undefined
IsSubAi(m)    == m.type = "ai" /\ m.src # undefined
IsMainTool(m) == m.type = "tool" /\ m.src = undefined /\ Truthy(m.tool_call_id)

InBuffer(Test(_)) == {Messages[i] : i \in {j \in 1..Len(Messages) : Test(Messages[j])}}

\* the calls an assistant message carries, over all its encodings
EncodedCalls(m) ==
    Arr(m.subTcs) \o Arr(m.kwTcs) \o Arr(m.tcs)
    \o SelectSeq(Arr(m.blocks), LAMBDA b : b.type = "tool_use")

IdsOf(calls) == {calls[i].id : i \in 1..Len(calls)}

\* the message carries each of its calls once
SingleEncoded(m) == Cardinality(IdsOf(EncodedCalls(m))) = Len(EncodedCalls(m))

\* sub-agent messages written under delegation t, and the ids of their calls
InlineMessages(t) == InBuffer(LAMBDA m : IsSubAi(m) /\ m.src = t)
InlineIds(t) == UNION {IdsOf(EncodedCalls(m)) : m \in InlineMessages(t)}

\* tool results answering delegation t
ResultsFor(t) == InBuffer(LAMBDA m : IsMainTool(m) /\ m.tool_call_id = t)

\* the bundles that reach the client with delegation t, whatever the channel
PayloadsOf(m) == {Arr(b) : b \in {m.kwBundle, m.dirBundle, m.jsonBundle} \ {Absent}}
BundlesFor(t) ==
    UNION {PayloadsOf(m) : m \in ResultsFor(t)}
    \cup (IF t \in DOMAIN BundleMap THEN {BundleMap[t].tool_calls} ELSE {})
BundleIds(t) == UNION {IdsOf(b) : b \in BundlesFor(t)}

\* positions of the tool-call records of a reconciled list
MainPos(out) == UNION {{<< i, "main", j >> : j \in 1..Len(out[i].toolCalls)}
                            : i \in 1..Len(out)}
SubPos(out)  == UNION {{<< i, "sub", j >> : j \in 1..Len(out[i].subagentToolCalls)}
                            : i \in 1..Len(out)}
CallPos(out) == MainPos(out) \cup SubPos(out)
CallAt(out, p) == IF p[2] = "main" THEN out[p[1]].toolCalls[p[3]]
                  ELSE out[p[1]].subagentToolCalls[p[3]]

\* sub-agent records shown under delegation t
SubRecords(out, t) == {p \in SubPos(out) : CallAt(out, p).parentToolCallId = t}

\* the logical invocations (id, parent) shown as completed
CompletedCalls(out) ==
    {<< CallAt(out, p).id, CallAt(out, p).parentToolCallId >> :
        p \in {q \in CallPos(out) : CallAt(out, q).status = "completed"}}

EntryIds(out) == [i \in 1..Len(out) |-> out[i].message.id]

\* position of x in a sequence, 0 when absent
PosIn(seq, x) == findIndex(seq, LAMBDA y : y = x)

----------------------------------------------------------------------------
(* Properties *)

\* C1 - status monotonicity: an invocation shown as completed by one
\* recomputation is shown as completed by every later one.
C1_StatusMonotone ==
    [][CompletedCalls(processed) \subseteq CompletedCalls(processed')]_vars

\* C2 - no two tool-call records of the reconciled output share a composite key.
C2_NoDuplicateKeys ==
    \A p, q \in CallPos(processed) :
        p # q => CallAt(processed, p).uniqueId # CallAt(processed, q).uniqueId

\* C6 - the composite key of one logical call is the same whether the call is
\* observed inline (sub-agent assistant message) or in the bundle that comes with
\* the delegation's tool result, and two distinct calls never share a key.
C6_KeyIdentity ==
    \A t \in Delegations :
        \A a \in InlineMessages(t), r \in ResultsFor(t) :
            /\ \A c \in IdsOf(EncodedCalls(a)) \cap BundleIds(t) :
                    uniqueIdOf(c, t, a.id) = bundleUniqueIdOf(c, t, r.id)
            /\ \A c \in IdsOf(EncodedCalls(a)), d \in BundleIds(t) :
                    c # d => uniqueIdOf(c, t, a.id) # bundleUniqueIdOf(d, t, r.id)

\* C7 - idempotence: recomputing on unchanged inputs gives an equal entry list.
C7_Idempotent ==
    [][(Messages' = Messages /\ BundleMap' = BundleMap)
            => processed' = processed]_vars

\* C3 precondition: delegation t has a tool result, its calls are present inline
\* (each in one sub-agent message, once) and the same calls come in its bundle
DualChannel(t) ==
    /\ ResultsFor(t) # {}
    /\ InlineIds(t) # {}
    /\ BundleIds(t) = InlineIds(t)
    /\ \A m \in InlineMessages(t) : SingleEncoded(m)
    /\ \A c \in InlineIds(t) :
            Cardinality({m.id : m \in {x \in InlineMessages(t) :
                                        c \in IdsOf(EncodedCalls(x))}}) = 1

\* C3 - dual-channel deduplication: when the n calls of a delegation are present
\* inline and in the bundle of its tool result, wherever the inline messages stand
\* in the buffer, exactly n sub-agent records are shown under the delegation.
C3_DualChannelCount ==
    \A t \in Delegations :
        DualChannel(t) =>
            Cardinality(SubRecords(processed, t)) = Cardinality(InlineIds(t))

\* the tool result stands before the inline message in the buffer, and the
\* bundle came in the tool result's own payload
C3_Witness ==
    /\ DualChannel("t1")
    /\ Cardinality(InlineIds("t1")) = 2
    /\ \E i, j \in 1..Len(Messages) :
            /\ i < j
            /\ IsMainTool(Messages[i]) /\ Messages[i].tool_call_id = "t1"
            /\ PayloadsOf(Messages[i]) # {}
            /\ IsSubAi(Messages[j]) /\ Messages[j].src = "t1"
    /\ \E k \in 1..Len(processed) :
            /\ \E j \in 1..Len(processed[k].toolCalls) :
                    /\ processed[k].toolCalls[j].id = "t1"
                    /\ processed[k].toolCalls[j].status = "completed"
    /\ Cardinality(SubRecords(processed, "t1")) = 2

\* the top-level calls declared by the assistant messages of the buffer
DeclaredIds == UNION {IdsOf(EncodedCalls(m)) : m \in InBuffer(IsMainAi)}
Declaring(t) == {m.id : m \in {x \in InBuffer(IsMainAi) : t \in IdsOf(EncodedCalls(x))}}

Distinct(calls) == Cardinality(IdsOf(calls)) = Len(calls)

\* C4 precondition: one assistant message, t is the only invocation declared,
\* nothing was written by a sub-agent, and the tool result of t carries one
\* bundle of distinct calls
BundleOnly(t) ==
    /\ InBuffer(IsSubAi) = {}
    /\ Cardinality({i \in 1..Len(Messages) : IsMainAi(Messages[i])}) = 1
    /\ DeclaredIds = {t}
    /\ Cardinality(Declaring(t)) = 1
    /\ ResultsFor(t) # {}
    /\ Cardinality(BundlesFor(t)) = 1
    /\ \A b \in BundlesFor(t) :
            Len(b) > 0 /\ Distinct(b) /\ undefined \notin IdsOf(b) /\ t \notin IdsOf(b)

\* C4 - bundle-only delegation: the n calls of the bundle are shown as n
\* sub-agent records with parentToolCallId = t, in the entry of the message that
\* declared t, and nowhere else.
C4_BundleOnly ==
    \A t \in Delegations :
        BundleOnly(t) =>
            \A b \in BundlesFor(t) :
                /\ Cardinality(SubPos(processed)) = Len(b)
                /\ \E k \in 1..Len(processed) :
                        /\ processed[k].message.id \in Declaring(t)
                        /\ Len(processed[k].subagentToolCalls) = Len(b)
                        /\ \A j \in 1..Len(b) :
                            /\ processed[k].subagentToolCalls[j].id = b[j].id
                            /\ processed[k].subagentToolCalls[j].parentToolCallId = t

\* the bundle was embedded as JSON in the text of the tool result
C4_Witness ==
    /\ BundleOnly("t1")
    /\ \E m \in ResultsFor("t1") : m.jsonBundle # Absent
    /\ "t1" \notin DOMAIN BundleMap
    /\ Cardinality(SubRecords(processed, "t1")) = 2

\* the bundle came through the bundle map only
C4_WitnessMap ==
    /\ BundleOnly("t1")
    /\ \A m \in ResultsFor("t1") : PayloadsOf(m) = {}
    /\ Cardinality(SubRecords(processed, "t1")) = 2

\* the calls delivered for delegation t: inline, or by the bundle of its result
DeliveredIds(t) == InlineIds(t) \cup BundleIds(t)

\* C5 - parallel sub-agents stay separate: with two delegations declared and
\* answered and their calls delivered (inline or by bundle), every call of a delegation is
\* shown exactly once under it, and selecting the delegation shows exactly its
\* calls.
C5_ParallelSeparate ==
    ( /\ Delegations \subseteq DeclaredIds
      /\ \A t \in Delegations :
            /\ DeliveredIds(t) # {}
            /\ ResultsFor(t) # {}
            /\ InlineIds(t) = {} \/ BundlesFor(t) = {}
            /\ \A m \in InlineMessages(t) : SingleEncoded(m)
            /\ Cardinality(InlineMessages(t)) <= 1
            /\ \A b \in BundlesFor(t) : Distinct(b) )
    => \A t \in Delegations :
            /\ \A c \in DeliveredIds(t) :
                    Cardinality({p \in SubRecords(processed, t) :
                                    CallAt(processed, p).id = c}) = 1
            /\ LET feed == subAgentToolCalls(t, processed)
               IN  /\ IdsOf(feed) = DeliveredIds(t)
                   /\ \A i \in 1..Len(feed) : feed[i].parentToolCallId = t

\* the distinct elements of a sequence, in the order of their first occurrence
RECURSIVE DistinctInOrder(_, _, _)
DistinctInOrder(acc, seq, i) ==
    IF i > Len(seq) THEN acc
    ELSE DistinctInOrder(IF seq[i] \in SeqToSet(acc) THEN acc ELSE Append(acc, seq[i]),
                         seq, i + 1)

IdsInOrder(msgs) == DistinctInOrder(<< >>, [i \in 1..Len(msgs) |-> msgs[i].id], 1)

Conversational(msgs) == SelectSeq(msgs, LAMBDA m : m.type \in {"human", "ai"})

\* C8 - order preservation: one entry per distinct id of the human and assistant
\* messages of the buffer, in the order of the first occurrence of each id; a
\* tool-result message has no entry.
C8_OrderPreserved ==
    /\ EntryIds(processed) = IdsInOrder(Conversational(Messages))
    /\ \A i \in 1..Len(processed) : processed[i].message.type # "tool"

\* a human message stands before an assistant message (the messageMap holds them
\* in the opposite order) and the buffer holds more messages than there are entries
C8_Witness ==
    /\ \E i, j \in 1..Len(Messages) :
            i < j /\ Messages[i].type = "human" /\ Messages[j].type = "ai"
    /\ Len(Messages) > Len(processed)
    /\ Len(processed) >= 2
    /\ processed[1].message.type = "human"

\* C9 - re-delivery is harmless: appending an exact copy of a message of the
\* buffer leaves the reconciled entry list unchanged.
C9_RedeliveryHarmless ==
    \A i \in 1..Len(Messages), rnd \in Seeds :
        processedMessages(Append(Messages, Messages[i]), BundleMap, rnd)
            = processedMessages(Messages, BundleMap, rnd)

\* C10 - chronological order: the entry of a message delivered earlier (by the
\* stream or by a custom event) stands before the entry of a message delivered
\* later.
C10_Chronological ==
    \A i, j \in 1..Len(processed) :
        i < j => PosIn(delivered, processed[i].message.id)
                    < PosIn(delivered, processed[j].message.id)

\* sub-agent messages that only the custom events have delivered
LocalOnly ==
    SelectSeq(localSubagentMessages,
              LAMBDA m : m.id \notin MessageIds(streamMessages))

\* C10 (amended) - the entries of the messages of the stream come first, in stream
\* order; the entries of the sub-agent messages that only custom events delivered
\* follow, in the order of their delivery.
C10_StreamThenLocal ==
    /\ EntryIds(processed)
         = IdsInOrder(Conversational(streamMessages)) \o IdsInOrder(LocalOnly)
    /\ LET ids == IdsInOrder(LocalOnly)
       IN  \A i, j \in 1..Len(ids) :
                i < j => PosIn(delivered, ids[i]) < PosIn(delivered, ids[j])

\* a custom event delivered a sub-agent message before the stream delivered an
\* assistant message, and the assistant message's entry stands first
C10_Witness ==
    /\ Len(LocalOnly) > 0
    /\ Len(processed) >= 2
    /\ processed[1].message.id \in MessageIds(streamMessages)
    /\ PosIn(delivered, LocalOnly[1].id) < PosIn(delivered, processed[1].message.id)
    /\ processed[Len(processed)].message.id = LocalOnly[Len(LocalOnly)].id

\* C11 - the message list returned by useChat (stream.messages followed by
\* the locally buffered sub-agent messages) holds no two messages with the
\* same id.
C11_NoDuplicateIds ==
    \A i, j \in 1..Len(Messages) : Messages[i].id = Messages[j].id => i = j

\* the sub-agents a user can select in the view, one of them never delegated to
Selectable == Delegations \cup {"t9"}

\* C12 - sub-agent isolation in the view: the feed of the selected sub-agent x
\* holds exactly the sub-agent records, over all entries, whose parentToolCallId
\* is x, and no record of another parent, whatever the names and types are.
C12_FeedIsolation ==
    /\ subAgentToolCalls(undefined, processed) = << >>
    /\ \A x \in Selectable :
        LET feed == subAgentToolCalls(x, processed)
        IN  /\ \A i \in 1..Len(feed) : feed[i].parentToolCallId = x
            /\ Len(feed) = Cardinality(SubRecords(processed, x))
            /\ \A p \in SubRecords(processed, x) :
                    \E i \in 1..Len(feed) : feed[i] = CallAt(processed, p)

\* two sub-agents of one type, each with a record of the same id and name, and
\* the feed of the first one is not empty
C12_Witness ==
    /\ \E p \in SubRecords(processed, "t1"), q \in SubRecords(processed, "t2") :
            /\ CallAt(processed, p).id = CallAt(processed, q).id
            /\ CallAt(processed, p).name = CallAt(processed, q).name
            /\ CallAt(processed, p).subagentType = CallAt(processed, q).subagentType
    /\ Len(subAgentToolCalls("t1", processed)) > 0

\* C13 - avatar derivation: showAvatar of an entry is true iff the entry is the
\* first one or its message type differs from the type of the entry before it.
C13_ShowAvatar ==
    \A i \in 1..Len(processed) :
        processed[i].showAvatar
            <=> (i = 1 \/ processed[i].message.type # processed[i - 1].message.type)

\* a human message followed by two assistant messages: true, true, false
C13_Witness ==
    /\ Len(processed) = 3
    /\ processed[1].message.type = "human" /\ processed[1].showAvatar
    /\ processed[2].message.type = "ai" /\ processed[2].showAvatar
    /\ processed[3].message.type = "ai" /\ ~processed[3].showAvatar

\* composite keys of the calls (with a provider id) that one occurrence of an
\* assistant message carries
KeysOfOccurrence(m) ==
    LET calls == toolCallsInMessage(m)
        tcs == toolCallsWithStatus(m, 0, 0)
    IN  {tcs[i].uniqueId : i \in {j \in 1..Len(calls) : Truthy(calls[j].id)}}

\* composite keys held by the entry of message id k
KeysOfEntry(out, k) ==
    UNION {UniqueIds(out[i].toolCalls) \cup UniqueIds(out[i].subagentToolCalls)
            : i \in {j \in 1..Len(out) : out[j].message.id = k}}

\* C20 - the collect pass merges: the entry of a message id holds the calls
\* extracted from every occurrence of that id in the buffer; a later occurrence
\* never removes what an earlier one contributed.
C20_MergeNotReplace ==
    \A i \in 1..Len(Messages) :
        Messages[i].type = "ai"
            => KeysOfOccurrence(Messages[i]) \subseteq KeysOfEntry(processed, Messages[i].id)

\* the usage stored for the thread a threadId value stands for
OwnUsage(t) == usageString(IF t = null THEN Absent ELSE StoredUsage(t))

\* the thread change has settled: useStream holds the thread and no getState
\* is awaited
Settled == streamThread = threadId /\ fetching = {}

(* C14: once a thread change has settled and before any usage event of the new
   thread, the token usage shown is all zeros or the thread's own stored usage,
   never the usage of the thread shown before. *)
C14_TokenReset ==
    (Settled /\ ~usageEventSeen) => tokenUsage \in {ZeroUsage, OwnUsage(threadId)}

(* C15: within one thread, the usage surfaced through onTokenUsageUpdate is the
   most recently observed usage snapshot (of a node update or of stream.values). *)
C15_LatestWins ==
    (Settled /\ usageEventSeen) => surfaced = Some(usageString(observed))

\* what is handed to reconciliation is what useStream holds: the local buffers
\* add no message and no bundle to it
NothingBuffered ==
    /\ mergedMessages(streamMessages, localSubagentMessages) = streamMessages
    /\ mergedSubagentToolCallsMap(streamMap, localSubagentToolCallsMap) = streamMap

(* C16: a change of threadId empties localSubagentMessages and
   localSubagentToolCallsMap, and until the first custom or update event of the
   new thread nothing buffered under the previous thread is handed to
   reconciliation. *)
C16_BuffersCleared ==
    /\ [][threadId' # threadId =>
            localSubagentMessages' = << >> /\ localSubagentToolCallsMap' = EmptyMap]_vars
    /\ [](bufferedUnder # Conversation(threadId) => NothingBuffered)

\* a thread change has emptied buffers that held a sub-agent message and a bundle
C16_Witness ==
    /\ threadId = "B"
    /\ bufferedUnder = "A"
    /\ localSubagentMessages = << >>
    /\ localSubagentToolCallsMap = EmptyMap

(* C17: when threadId changes, the file map keeps no path it held for the
   previous thread, and when the state of the thread shown is loaded the file
   map is exactly that thread's normalized files. *)
C17_FilesReset ==
    /\ [][threadId' # threadId => DOMAIN files' \cap DOMAIN files = {}]_vars
    /\ [][(loadedFor' # loadedFor /\ loadedFor' = threadId')
            => files' = normalizedFiles(StoredFiles(threadId'))]_vars

(* C18: a click on Save Outline submits one new human turn that carries the
   serialized local outline; an edit of the local outline submits nothing. *)
C18_OutlineSaveSubmits ==
    /\ [][outlineSaves' # outlineSaves =>
            /\ Len(submitted') = Len(submitted) + 1
            /\ submitted'[Len(submitted')].message =
                    OutlineMessage(SerializeOutline(Arr(localOutline)))]_vars
    /\ [][(localOutline' # localOutline /\ outlineSaves' = outlineSaves /\ files' = files)
            => submitted' = submitted]_vars

(* C19: a submit carries configurable.model exactly when stream.messages is
   empty at the submit, and over the submits of one thread only the first can
   carry it. *)
C19_ModelOnFirstTurn ==
    /\ \A i \in 1..Len(submitted) :
            submitted[i].model = IF submitted[i].held = 0 THEN Some(selectedModel)
                                 ELSE Absent
    /\ \A i, j \in 1..Len(submitted) :
            (i < j /\ submitted[i].thread = submitted[j].thread)
                => submitted[j].model = Absent

\* two submits in the thread the first one created: the first carried the model
C19_Witness ==
    /\ Len(submitted) = 2
    /\ submitted[1].thread = submitted[2].thread
    /\ submitted[1].model = Some(selectedModel)
    /\ submitted[2].model = Absent

\* ids known to reconciliation before the bundle of a delegation is merged,
\* whatever the order of the results: declared by an assistant message or
\* written inline by a sub-agent
KnownBeforeMerge == DeclaredIds \cup UNION {InlineIds(t) : t \in Delegations}

\* ids known through any source other than the bundle of d
KnownApartFrom(d) ==
    KnownBeforeMerge \cup UNION {BundleIds(t) : t \in Delegations \ {d}}

\* C21 - the late-bundle merge is decided per invocation: for a delegation d that
\* is declared and answered, each call of d's bundle whose id is known from no
\* other source is shown under d in the entry declaring d, and a call whose id
\* is already known (and was not written inline under d) is not added under d.
C21_PerInvocationMerge ==
    \A d \in Delegations :
        (ResultsFor(d) # {} /\ Declaring(d) # {}) =>
            \A c \in BundleIds(d) \ {undefined} :
                /\ c \notin KnownApartFrom(d) =>
                        \E p \in SubRecords(processed, d) :
                            /\ CallAt(processed, p).id = c
                            /\ processed[p[1]].message.id \in Declaring(d)
                /\ (c \in KnownBeforeMerge /\ c \notin InlineIds(d)) =>
                        \A p \in SubRecords(processed, d) : CallAt(processed, p).id # c

\* the completions (results) delivered for the call id under parent t (undefined
\* for a top-level call): by a tool-result message of the same kind answering
\* it, or by an entry of a bundle of t that carries status completed, once t is
\* declared and answered (the bundle is read when the result of t is)
CompletionsOf(id, t) ==
    {m.content : m \in InBuffer(LAMBDA x : x.type = "tool" /\ x.src = t
                                            /\ x.tool_call_id = id)}
    \cup (IF t = undefined \/ ResultsFor(t) = {} \/ Declaring(t) = {} THEN {}
          ELSE UNION {{b[i].result : i \in {j \in 1..Len(b) :
                                            b[j].id = id /\ b[j].status = "completed"}}
                        : b \in BundlesFor(t)})

\* C22 - completion is attached whatever the channel: every call of the
\* reconciled output whose completion some channel has delivered (a tool-result
\* message answering it, or a completed entry of its delegation's bundle) is
\* shown as completed with that result.
C22_CompletionAttached ==
    \A p \in CallPos(processed) :
        LET c == CallAt(processed, p)
            done == CompletionsOf(c.id, c.parentToolCallId)
        IN  done # {} => c.status = "completed" /\ c.result \in done

\* the four encodings of the calls of an assistant message, in the order of
\* the extractor
Encodings(m) ==
    << Arr(m.subTcs), Arr(m.kwTcs),
       SelectSeq(Arr(m.tcs), LAMBDA tc : tc.name # ""),
       SelectSeq(Arr(m.blocks), LAMBDA b : b.type = "tool_use") >>

\* the first non-empty encoding, empty when there is none
FirstNonEmpty(m) ==
    LET k == findIndex(Encodings(m), LAMBDA e : Len(e) > 0)
    IN  IF k = 0 THEN << >> ELSE Encodings(m)[k]

\* C23 - the extractor uses one encoding only: the calls extracted from an
\* assistant message are those of the first non-empty source among
\* _subagent_tool_calls, additional_kwargs.tool_calls, tool_calls with a
\* non-empty name, and the tool_use content blocks.
C23_OneEncoding ==
    \A i \in 1..Len(Messages) :
        Messages[i].type = "ai"
            => toolCallsInMessage(Messages[i]) = FirstNonEmpty(Messages[i])

\* a sequence without its i-th element
RemoveAt(seq, i) == SubSeq(seq, 1, i - 1) \o SubSeq(seq, i + 1, Len(seq))

\* the sub-agent records of a reconciled list as (id, parent, status, result)
SubStatus(out) ==
    {<< CallAt(out, p).id, CallAt(out, p).parentToolCallId,
        CallAt(out, p).status, CallAt(out, p).result >> : p \in SubPos(out)}

\* the logical sub-agent calls (id, parent) of a reconciled list
SubKeys(out) == {<< x[1], x[2] >> : x \in SubStatus(out)}

TopLevel(out) == [k \in 1..Len(out) |-> out[k].toolCalls]

\* C24 - the result search is split by origin: compared with the output for the
\* buffer without it, a tool result with _subagent_source changes no top-level
\* call, and a tool result without _subagent_source changes the status or
\* result of no sub-agent call (it may only bring new records with its bundle).
C24_SplitByOrigin ==
    \A i \in 1..Len(Messages), rnd \in Seeds :
        Messages[i].type = "tool" =>
            LET with    == processedMessages(Messages, BundleMap, rnd)
                without == processedMessages(RemoveAt(Messages, i), BundleMap, rnd)
                common  == SubKeys(with) \cap SubKeys(without)
            IN  IF Messages[i].src # undefined
                THEN TopLevel(with) = TopLevel(without)
                ELSE {x \in SubStatus(with) : << x[1], x[2] >> \in common}
                        = {x \in SubStatus(without) : << x[1], x[2] >> \in common}

\* a sub-agent result naming the id of a top-level call has left that call
\* pending, and a main-agent result naming the id of a sub-agent call has left
\* that call pending
C24_Witness ==
    /\ \E i \in 1..Len(Messages) : Messages[i] = SubToolT1
    /\ \E j \in 1..Len(Messages) : Messages[j] = ToolS1
    /\ \E p \in MainPos(processed) :
            CallAt(processed, p).id = "t1" /\ CallAt(processed, p).status = "pending"
    /\ \E p \in SubPos(processed) :
            CallAt(processed, p).id = "s1" /\ CallAt(processed, p).status = "pending"

\* the ids of the calls of a reconciled list among which a tool result of the
\* given origin is searched
SearchedIds(out, m) ==
    {CallAt(out, p).id : p \in IF m.src # undefined THEN SubPos(out) ELSE MainPos(out)}

\* C25 - orphan results are dropped: a tool result whose tool_call_id matches
\* no call of the set it searches leaves the reconciled output equal to the
\* output for the same buffer without that message.
C25_OrphanDropped ==
    \A i \in 1..Len(Messages), rnd \in Seeds :
        LET without == processedMessages(RemoveAt(Messages, i), BundleMap, rnd)
        IN  (Messages[i].type = "tool"
                /\ Messages[i].tool_call_id \notin SearchedIds(without, Messages[i]))
            => processedMessages(Messages, BundleMap, rnd) = without

\* the result of a delegation nobody declared, carrying a bundle, and a
\* sub-agent result answering no sub-agent call, next to the entry of a
\* sub-agent message whose calls stay pending
C25_Witness ==
    /\ \E i \in 1..Len(Messages) : Messages[i] = WithKwBundle(Tool1, DoneBundle)
    /\ \E i \in 1..Len(Messages) : Messages[i] = SubToolT1
    /\ Declaring("t1") = {}
    /\ Len(processed) = 1
    /\ Len(processed[1].subagentToolCalls) > 0
    /\ CompletedCalls(processed) = {}

\* the sub-agent results (origin p, answering x) of the buffer
SubResults ==
    InBuffer(LAMBDA m : m.type = "tool" /\ m.src # undefined /\ Truthy(m.tool_call_id))

\* C27 - a sub-agent result stays inside its own delegation: compared with the
\* output for the buffer without it, a sub-agent result of origin p answering x
\* changes at most one sub-agent record, and only a record with id x whose
\* parentToolCallId is p.
C27_OwnDelegation ==
    \A i \in 1..Len(Messages), rnd \in Seeds :
        (Messages[i].type = "tool" /\ Messages[i].src # undefined) =>
            LET with    == processedMessages(Messages, BundleMap, rnd)
                without == processedMessages(RemoveAt(Messages, i), BundleMap, rnd)
                changed == {q \in SubPos(with) : CallAt(with, q) # CallAt(without, q)}
            IN  /\ Cardinality(changed) <= 1
                /\ \A q \in changed :
                        /\ CallAt(with, q).id = Messages[i].tool_call_id
                        /\ CallAt(with, q).parentToolCallId = Messages[i].src

\* C28 - the avatar is consistent with what is rendered: in the main chat list
\* (the entries of sub-agent assistant messages filtered out) an entry has
\* showAvatar = TRUE iff it is the first rendered entry or its message type
\* differs from the type of the rendered entry before it.
C28_AvatarRendered ==
    LET shown == messagesList(processed)
    IN  \A i \in 1..Len(shown) :
            shown[i].showAvatar
                <=> (i = 1 \/ shown[i].message.type # shown[i - 1].message.type)

\* C29 - final-state bundles are not lost: for every key of
\* stream.values.subagent_tool_calls_map, the merged map handed to
\* reconciliation holds every tool call of the snapshot's bundle for that key.
C29_FinalBundleKept ==
    \A k \in DOMAIN streamMap :
        /\ k \in DOMAIN BundleMap
        /\ IdsOf(streamMap[k].tool_calls) \subseteq IdsOf(BundleMap[k].tool_calls)

\* a valid section of a payload: an object whose id and title are present and
\* not empty and whose description and order are present
ValidEntry(e) ==
    /\ ~e.isNull
    /\ e.id \notin {undefined, ""}
    /\ e.title \notin {undefined, ""}
    /\ e.description # Absent
    /\ e.order # Absent

\* C26 - outline validation accepts partially: for a payload that parses to an
\* object, parseOutlineJSON returns an outline holding exactly the valid sections
\* of the sections list in their original order, and null when no section is
\* valid or the sections list is missing.
C26_PartialAcceptance ==
    (parsedOutline.called /\ jsonString.kind = "object") =>
        LET valid == IF jsonString.sectionsKind = "array"
                     THEN SelectSeq(jsonString.sections, ValidEntry)
                     ELSE << >>
        IN  IF Len(valid) > 0
            THEN /\ parsedOutline.value # Absent
                 /\ Arr(parsedOutline.value).sections = valid
            ELSE parsedOutline.value = Absent

\* ids of a list of sections, in list order
SectionIdsOf(sections) == [i \in 1..Len(sections) |-> sections[i].id]

\* what PlanOutline displays for an outline: the ids in displayed order
Displayed(o) == SectionIdsOf(sortedSections(o))

\* C30 - outline reordering acts on the displayed order: for the section shown
\* at position i (from 0) of the displayed list, handleMoveUp(i) with i > 0 and
\* handleMoveDown(i) with i < n-1 swap it with its displayed neighbour, leave the
\* displayed order of the other sections as it was, and leave the orders 1..n.
C30_MoveDisplayed ==
    localOutline # Absent =>
        LET o == Arr(localOutline)
            n == Len(o.sections)
            Orders(x) == {x.sections[k].order : k \in 1..Len(x.sections)}
        IN  /\ \A i \in 1..(n - 1) :
                    /\ Displayed(handleMoveUp(o, i)) = Swap(Displayed(o), i, i + 1)
                    /\ Orders(handleMoveUp(o, i)) = 1..n
            /\ \A i \in 0..(n - 2) :
                    /\ Displayed(handleMoveDown(o, i)) = Swap(Displayed(o), i + 1, i + 2)
                    /\ Orders(handleMoveDown(o, i)) = 1..n

====
